---- MODULE Spec2Model ----
(***************************************************************************)
(* A model of exif_watermark.py: the color parser (parse_color), the       *)
(* metadata reader (get_exif_date), the renderer (add_watermark) and the   *)
(* batch driver (process_images).                                          *)
(*                                                                         *)
(* Python strings are sequences of one-character strings, so that          *)
(* startswith, lstrip, replace, split, slicing, lower and int() are        *)
(* computed character by character as the interpreter computes them.       *)
(***************************************************************************)
EXTENDS Integers, Sequences, FiniteSets, TLC

VARIABLES
    color_str,      \* parse_color: the argument
    color_pc,       \* parse_color: "idle" | "call" | "done"
    color_ret,      \* parse_color: the returned tuple
    exif_tags,      \* get_exif_date: the tags the file holds
    exif_env,       \* get_exif_date: how open() and process_file() behaved
    exif_pc,        \* get_exif_date: "idle" | "call" | "done"
    exif_ret,       \* get_exif_date: what the call did (returned value, or raised)
    wm_args,        \* add_watermark: the arguments, the image and the font's metrics
    wm_env,         \* add_watermark: how the delegated steps behaved
    wm_pc,          \* add_watermark: "idle" | "call" | "done"
    wm_out,         \* add_watermark: what the call did (returned value, draws, save)
    input_path,     \* process_images: the path argument
    fs,             \* the file system: what input_path is, what it lists, what exists
    batch_pc,       \* process_images: "idle" | "call" | "loop" | "done" | "raised"
    files,          \* process_images: the candidate list
    base_dir,       \* process_images: local
    output_dir,     \* process_images: local
    next_file,      \* process_images: index of the file the for loop takes next
    processed_count,\* process_images: local
    trace           \* every print, makedirs, get_exif_date and add_watermark call so far

colorVars == <<color_str, color_pc, color_ret>>
exifVars == <<exif_tags, exif_env, exif_pc, exif_ret>>
wmVars == <<wm_args, wm_env, wm_pc, wm_out>>
batchVars == <<input_path, fs, batch_pc, files, base_dir, output_dir, next_file,
               processed_count, trace>>
vars == <<colorVars, exifVars, wmVars, batchVars>>

(***************************************************************************)
(* Python string primitives                                                *)
(***************************************************************************)

Whitespace == {" ", "\t", "\n"}

\* str.startswith(prefix)
StartsWith(s, prefix) ==
    /\ Len(s) >= Len(prefix)
    /\ SubSeq(s, 1, Len(prefix)) = prefix

\* str.endswith(suffix)
EndsWith(s, suffix) ==
    /\ Len(s) >= Len(suffix)
    /\ SubSeq(s, Len(s) - Len(suffix) + 1, Len(s)) = suffix

\* str.lstrip(chars): drops every leading character that is in chars
RECURSIVE LStrip(_, _)
LStrip(s, chars) ==
    IF s # <<>> /\ Head(s) \in chars THEN LStrip(Tail(s), chars) ELSE s

\* str.rstrip(chars)
RECURSIVE RStrip(_, _)
RStrip(s, chars) ==
    IF s # <<>> /\ s[Len(s)] \in chars
    THEN RStrip(SubSeq(s, 1, Len(s) - 1), chars)
    ELSE s

\* str.strip() with no argument: whitespace at both ends
Strip(s) == RStrip(LStrip(s, Whitespace), Whitespace)

\* str.replace(pat, ""): every non-overlapping occurrence, left to right
RECURSIVE Remove(_, _)
Remove(s, pat) ==
    IF s = <<>> THEN <<>>
    ELSE IF StartsWith(s, pat) THEN Remove(SubSeq(s, Len(pat) + 1, Len(s)), pat)
    ELSE <<Head(s)>> \o Remove(Tail(s), pat)

\* str.split(sep) for a one-character sep: never an empty list
RECURSIVE Split(_, _)
Split(s, sep) ==
    IF \E i \in 1..Len(s) : s[i] = sep
    THEN LET i == CHOOSE k \in 1..Len(s) :
                     s[k] = sep /\ \A j \in 1..(k - 1) : s[j] # sep
         IN <<SubSeq(s, 1, i - 1)>> \o Split(SubSeq(s, i + 1, Len(s)), sep)
    ELSE <<s>>

UpperLetters ==
    <<"A","B","C","D","E","F","G","H","I","J","K","L","M",
      "N","O","P","Q","R","S","T","U","V","W","X","Y","Z">>

LowerLetters ==
    <<"a","b","c","d","e","f","g","h","i","j","k","l","m",
      "n","o","p","q","r","s","t","u","v","w","x","y","z">>

LowerChar(c) ==
    IF \E i \in 1..26 : UpperLetters[i] = c
    THEN LowerLetters[CHOOSE i \in 1..26 : UpperLetters[i] = c]
    ELSE c

\* str.lower()
Lower(s) == [i \in 1..Len(s) |-> LowerChar(s[i])]

\* s[i:i+2] for a 0-based i: slicing never raises, it truncates
Slice2(s, i) ==
    SubSeq(s, i + 1, IF i + 2 <= Len(s) THEN i + 2 ELSE Len(s))

(***************************************************************************)
(* int(text, base): surrounding whitespace, one optional sign, for base 16 *)
(* an optional 0x prefix, then digits with single underscores between      *)
(* them. Anything else raises ValueError.                                  *)
(***************************************************************************)

DigitChars ==
    <<"0","1","2","3","4","5","6","7","8","9",
      "a","b","c","d","e","f","g","h","i","j","k","l","m",
      "n","o","p","q","r","s","t","u","v","w","x","y","z">>

\* the value of a digit character, 36 when it is no digit
DigitValue(c) ==
    LET l == LowerChar(c) IN
    IF \E i \in 1..36 : DigitChars[i] = l
    THEN (CHOOSE i \in 1..36 : DigitChars[i] = l) - 1
    ELSE 36

DigitsOk(d, base) ==
    /\ d # <<>>
    /\ d[1] # "_"
    /\ d[Len(d)] # "_"
    /\ \A i \in 1..Len(d) : d[i] = "_" \/ DigitValue(d[i]) < base
    /\ \A i \in 1..(Len(d) - 1) : ~(d[i] = "_" /\ d[i + 1] = "_")

RECURSIVE DigitsVal(_, _, _)
DigitsVal(d, base, acc) ==
    IF d = <<>> THEN acc
    ELSE IF Head(d) = "_" THEN DigitsVal(Tail(d), base, acc)
    ELSE DigitsVal(Tail(d), base, acc * base + DigitValue(Head(d)))

\* the digits d after sign and prefix, negated when neg
IntOfDigits(d, base, neg) ==
    IF DigitsOk(d, base)
    THEN [ok |-> TRUE, val |-> (IF neg THEN 0 - 1 ELSE 1) * DigitsVal(d, base, 0)]
    ELSE [ok |-> FALSE, val |-> 0]

\* one underscore may follow the 0x prefix
AfterPrefix(w) == IF w # <<>> /\ w[1] = "_" THEN Tail(w) ELSE w

IntOfUnsigned(u, base, neg) ==
    IF base = 16 /\ Len(u) >= 2 /\ u[1] = "0" /\ u[2] \in {"x", "X"}
    THEN IntOfDigits(AfterPrefix(SubSeq(u, 3, Len(u))), base, neg)
    ELSE IntOfDigits(u, base, neg)

IntOfStripped(t, base) ==
    IF t # <<>> /\ t[1] \in {"+", "-"}
    THEN IntOfUnsigned(Tail(t), base, t[1] = "-")
    ELSE IntOfUnsigned(t, base, FALSE)

\* int(text, base): ok is FALSE where Python raises ValueError
PyInt(text, base) == IntOfStripped(Strip(text), base)

(***************************************************************************)
(* parse_color                                                             *)
(***************************************************************************)

DefaultColor == <<255, 255, 255, 128>>

ColorNames ==
    { <<"w","h","i","t","e">>,
      <<"b","l","a","c","k">>,
      <<"r","e","d">>,
      <<"g","r","e","e","n">>,
      <<"b","l","u","e">>,
      <<"y","e","l","l","o","w">>,
      <<"c","y","a","n">>,
      <<"m","a","g","e","n","t","a">>,
      <<"g","r","a","y">>,
      <<"t","r","a","n","s","p","a","r","e","n","t">> }

color_map(name) ==
    CASE name = <<"w","h","i","t","e">> -> <<255, 255, 255, 255>>
      [] name = <<"b","l","a","c","k">> -> <<0, 0, 0, 255>>
      [] name = <<"r","e","d">> -> <<255, 0, 0, 255>>
      [] name = <<"g","r","e","e","n">> -> <<0, 255, 0, 255>>
      [] name = <<"b","l","u","e">> -> <<0, 0, 255, 255>>
      [] name = <<"y","e","l","l","o","w">> -> <<255, 255, 0, 255>>
      [] name = <<"c","y","a","n">> -> <<0, 255, 255, 255>>
      [] name = <<"m","a","g","e","n","t","a">> -> <<255, 0, 255, 255>>
      [] name = <<"g","r","a","y">> -> <<128, 128, 128, 255>>
      [] name = <<"t","r","a","n","s","p","a","r","e","n","t">> -> <<255, 255, 255, 128>>

\* The outcome of one block of the try body: it returns a value, raises, or
\* falls through to the next block with the (possibly rebound) color_str.
Return(v) == [kind |-> "return", val |-> v, str |-> <<>>]
Raise == [kind |-> "raise", val |-> <<>>, str |-> <<>>]
FallThrough(s) == [kind |-> "next", val |-> <<>>, str |-> s]

\* tuple(int(color_str[i:i+2], 16) for i in offsets)
HexChannels(s, offsets) ==
    [k \in 1..Len(offsets) |-> PyInt(Slice2(s, offsets[k]), 16)]

\* no int() call of the comprehension raised
AllParsed(c) == \A k \in 1..Len(c) : c[k].ok

Values(c) == [k \in 1..Len(c) |-> c[k].val]

\* return (r, g, b, 255), unless an int() call raised
Opaque(c) == IF AllParsed(c) THEN Return(Append(Values(c), 255)) ELSE Raise

\* return (r, g, b, a), unless an int() call raised
AsGiven(c) == IF AllParsed(c) THEN Return(Values(c)) ELSE Raise

\* Faulty variant of HexDigits: the 8-digit form drops its alpha pair.
HexDigitsAlphaLost(h) ==
    IF Len(h) = 6 \/ Len(h) = 8 THEN Opaque(HexChannels(h, <<0, 2, 4>>))
    ELSE FallThrough(h)

\* Lines 198-203, on the string lstrip('#') left
HexDigits(h) ==
    IF Len(h) = 6 THEN Opaque(HexChannels(h, <<0, 2, 4>>))
    ELSE IF Len(h) = 8 THEN AsGiven(HexChannels(h, <<0, 2, 4, 6>>))
    ELSE FallThrough(h)

\* Lines 196-203
HexForm(s) ==
    IF StartsWith(s, <<"#">>) THEN HexDigits(LStrip(s, {"#"})) ELSE FallThrough(s)

\* [int(x.strip()) for x in items]
IntParts(items) == [k \in 1..Len(items) |-> PyInt(Strip(items[k]), 10)]

\* Lines 209-212, on the parsed parts; body is the rebound color_str
FromParts(parts, body) ==
    IF ~AllParsed(parts) THEN Raise
    ELSE IF Len(parts) = 3 THEN Return(Append(Values(parts), 255))
    ELSE IF Len(parts) = 4 THEN Return(Values(parts))
    ELSE FallThrough(body)

\* Line 208 on, on the string the three replace calls left
Components(body) == FromParts(IntParts(Split(body, ",")), body)

\* Lines 206-212
FunctionalForm(s) ==
    IF StartsWith(s, <<"r","g","b","(">>) \/ StartsWith(s, <<"r","g","b","a","(">>)
    THEN Components(Remove(Remove(Remove(s, <<"r","g","b","a","(">>),
                                  <<"r","g","b","(">>), <<")">>))
    ELSE FallThrough(s)

LookUp(name, s) ==
    IF name \in ColorNames THEN Return(color_map(name)) ELSE FallThrough(s)

\* Lines 228-229
NamedForm(s) == LookUp(Lower(s), s)

AfterFunctional(f) == IF f.kind # "next" THEN f ELSE NamedForm(f.str)

AfterHex(h) == IF h.kind # "next" THEN h ELSE AfterFunctional(FunctionalForm(h.str))

\* The try body: the three blocks in order, each on the string the one before left.
ParseBody(s) == AfterHex(HexForm(s))

\* what the function returns for the outcome r of its try body
OrDefault(r) == IF r.kind = "return" THEN r.val ELSE DefaultColor

\* except Exception: print, then the default; falling off the try is the default too
parse_color(s) == OrDefault(ParseBody(s))

(***************************************************************************)
(* The strings parse_color is applied to                                   *)
(***************************************************************************)

MaxHexLen == 8      \* longest ragged run of characters after '#'
MaxComps == 4       \* most comma-separated components of a functional string

SeqsUpTo(S, n) == UNION { [1..k -> S] : k \in 0..n }

RECURSIVE Join(_, _)
Join(items, sep) ==
    IF items = <<>> THEN <<>>
    ELSE IF Len(items) = 1 THEN items[1]
    ELSE items[1] \o <<sep>> \o Join(Tail(items), sep)

UpperChar(c) ==
    IF \E i \in 1..26 : LowerLetters[i] = c
    THEN UpperLetters[CHOOSE i \in 1..26 : LowerLetters[i] = c]
    ELSE c

Upper(s) == [i \in 1..Len(s) |-> UpperChar(s[i])]

Capitalize(s) == [i \in 1..Len(s) |-> IF i = 1 THEN UpperChar(s[i]) ELSE s[i]]

HexUpper == <<"0","1","2","3","4","5","6","7","8","9","A","B","C","D","E","F">>
HexLower == <<"0","1","2","3","4","5","6","7","8","9","a","b","c","d","e","f">>

\* the two-digit hex text of a byte
Hex2(n, digits) == <<digits[(n \div 16) + 1], digits[(n % 16) + 1]>>

SampleBytes == {0, 10, 128, 255}

HexTexts6 ==
    { <<"#">> \o Hex2(c[1], d) \o Hex2(c[2], d) \o Hex2(c[3], d) :
        c \in [1..3 -> SampleBytes], d \in {HexUpper, HexLower} }

HexTexts8 ==
    { <<"#">> \o Hex2(c[1], d) \o Hex2(c[2], d) \o Hex2(c[3], d) \o Hex2(c[4], d) :
        c \in [1..4 -> SampleBytes], d \in {HexUpper, HexLower} }

\* '#' and then any run of a hex digit and a letter that is no hex digit
RaggedHexTexts == { <<"#">> \o t : t \in SeqsUpTo({"F", "g"}, MaxHexLen) }

\* '#' and then 3 or 4 two-character groups, some of which int(.., 16) takes
\* although they are not two hex digits
HexGroups == { <<"-","F">>, <<"+","1">>, <<" ","2">>, <<"0","x">>, <<"1","F">> }

GroupedHexTexts ==
    { <<"#">> \o g[1] \o g[2] \o g[3] : g \in [1..3 -> HexGroups] }
    \cup { <<"#">> \o g[1] \o g[2] \o g[3] \o g[4] : g \in [1..4 -> HexGroups] }

ComponentTexts ==
    { <<"2","5","5">>, <<"3","0","0">>, <<"-","1">>, <<" ","7"," ">>, <<"x">> }

FunctionalTexts ==
    { p \o Join(c, ",") \o e :
        p \in { <<"r","g","b","(">>, <<"r","g","b","a","(">> },
        c \in SeqsUpTo(ComponentTexts, MaxComps) \ {<<>>},
        e \in { <<")">>, <<>> } }

NameTexts ==
    { p \o v : p \in { <<>>, <<"#">>, <<"#","#">> },
               v \in UNION { {n, Upper(n), Capitalize(n)} : n \in ColorNames } }

OtherTexts ==
    { <<>>,
      <<"#">>,
      <<"n","o","t","-","a","-","c","o","l","o","r">>,
      <<"o","r","a","n","g","e">>,
      <<" ","w","h","i","t","e">>,
      <<"#","0","0","F","F","0","0","8","0">>,
      <<"#"," ","F"," ","F"," ","F">>,
      <<"#","+","1","+","2","+","3">>,
      <<"#","0","x","0","x","0","x">>,
      <<"#","#","F","F","0","0","0","0">>,
      <<"r","g","b","(","1","0",",","2","0",",","3","0",")">>,
      <<"r","g","b","a","(","1",",","2",",","3",",","4",")">>,
      <<"r","g","b","(",")">>,
      <<"r","g","b","(","1","_","0",",","2",",","3",")">>,
      <<"r","g","b","(","1",")","0",",","2",",","3",")">>,
      <<"R","G","B","(","1",",","2",",","3",")">>,
      <<" ","r","g","b","(","1",",","2",",","3",")">>,
      <<"#","r","g","b","(","1",",","2",",","3",")">>,
      <<"r","g","b","(","r","e","d">>,
      <<"r","g","b","(","r","g","b","a","(","b","l","u","e",")">> }

ColorTexts ==
    HexTexts6 \cup HexTexts8 \cup RaggedHexTexts \cup GroupedHexTexts
        \cup FunctionalTexts
        \cup NameTexts \cup OtherTexts

(***************************************************************************)
(* parse_color as a step: main() calls it once on the -c argument          *)
(***************************************************************************)

ColorInit ==
    /\ color_str \in ColorTexts
    /\ color_pc = "call"
    /\ color_ret = <<>>

ParseColor ==
    /\ color_pc = "call"
    /\ color_ret' = parse_color(color_str)
    /\ color_pc' = "done"
    /\ UNCHANGED color_str

(***************************************************************************)
(* get_exif_date                                                           *)
(***************************************************************************)

None == <<"None">>

date_tags == <<"EXIF DateTimeOriginal", "EXIF DateTimeDigitized", "Image DateTime">>

\* A tag is absent or holds the text of six number fields "Y:M:D h:m:s" (kept
\* as the numbers), or text that is no such pattern at all.
Absent == [kind |-> "absent"]
Garbage == [kind |-> "text"]
Stamp(y, mo, d, h, mi, sec) ==
    [kind |-> "stamp", Y |-> y, M |-> mo, D |-> d, h |-> h, m |-> mi, s |-> sec]

IsLeap(y) == (y % 4 = 0 /\ y % 100 # 0) \/ y % 400 = 0

DaysIn(y, mo) ==
    IF mo = 2 THEN (IF IsLeap(y) THEN 29 ELSE 28)
    ELSE IF mo \in {4, 6, 9, 11} THEN 30 ELSE 31

\* datetime.strptime(date_str, '%Y:%m:%d %H:%M:%S') raises ValueError unless
\* the text matches and names a real date and time
StrptimeOk(v) ==
    /\ v.kind = "stamp"
    /\ v.Y \in 1..9999
    /\ v.M \in 1..12
    /\ v.D \in 1..DaysIn(v.Y, v.M)
    /\ v.h \in 0..23
    /\ v.m \in 0..59
    /\ v.s \in 0..61

DecimalDigits == <<"0","1","2","3","4","5","6","7","8","9">>

\* the last n decimal digits of k, zero-padded
RECURSIVE Digits(_, _)
Digits(k, n) ==
    IF n = 0 THEN <<>>
    ELSE Digits(k \div 10, n - 1) \o <<DecimalDigits[(k % 10) + 1]>>

\* date_obj.strftime('%Y-%m-%d')
Strftime(v) == Digits(v.Y, 4) \o <<"-">> \o Digits(v.M, 2) \o <<"-">> \o Digits(v.D, 2)

\* the for loop over date_tags from index k on: the first tag that is present
\* and parses decides; a ValueError moves on to the next tag
RECURSIVE FirstDate(_, _)
FirstDate(tags, k) ==
    IF k > Len(date_tags) THEN None
    ELSE LET v == tags[date_tags[k]] IN
         IF v.kind # "absent" /\ StrptimeOk(v) THEN Strftime(v)
         ELSE FirstDate(tags, k + 1)

\* The try body: open and process_file may raise, the loop does not.
ExifBody(tags, env) ==
    IF ~env.open_ok \/ ~env.process_ok
    THEN [raised |-> TRUE, val |-> None]
    ELSE [raised |-> FALSE, val |-> FirstDate(tags, 1)]

\* except Exception: print, return None
get_exif_date(tags, env) ==
    LET r == ExifBody(tags, env) IN
    IF r.raised THEN [raised |-> FALSE, val |-> None] ELSE r

(***************************************************************************)
(* add_watermark                                                           *)
(***************************************************************************)

padding == 10

PositionTokens ==
    { "left-top", "center-top", "right-top",
      "left-center", "center", "right-center",
      "left-bottom", "center-bottom", "right-bottom" }

\* Lines 49-83. The platform search leaves a font file (font_found) or none.
\* ImageFont.truetype may raise, which the inner except answers with
\* load_default(); load_default() raising in the else branch is caught by the
\* same except, whose own load_default() then raises out of the inner try.
LoadFont(env) ==
    IF env.font_found /\ env.truetype_ok THEN [raised |-> FALSE, font |-> "truetype"]
    ELSE IF env.default_ok THEN [raised |-> FALSE, font |-> "default"]
    ELSE [raised |-> TRUE, font |-> "none"]

\* Lines 89-104: the first measurement interface the library has.
\* metrics.iface names it; size, bbox and length are what it answers.
TextSize(metrics, date_text, font_size) ==
    IF metrics.iface = "textsize"
    THEN <<metrics.size[1], metrics.size[2]>>
    ELSE IF metrics.iface = "getbbox"
    THEN <<metrics.bbox[3] - metrics.bbox[1], metrics.bbox[4] - metrics.bbox[2]>>
    ELSE IF metrics.iface = "getlength"
    THEN <<metrics.length, font_size>>
    ELSE <<Len(date_text) * (font_size \div 2), font_size>>

\* Faulty variant of Anchor: coordinates are clamped at 0.
AnchorClamped(position, width, height, text_width, text_height) ==
    LET Clamp(v) == IF v < 0 THEN 0 ELSE v
        x == IF position \in {"left-top", "left-center", "left-bottom"}
             THEN padding
             ELSE IF position \in {"center-top", "center", "center-bottom"}
             THEN (width - text_width) \div 2
             ELSE width - text_width - padding
        y == IF position \in {"left-top", "center-top", "right-top"}
             THEN padding
             ELSE IF position \in {"left-center", "center", "right-center"}
             THEN (height - text_height) \div 2
             ELSE height - text_height - padding
    IN <<Clamp(x), Clamp(y)>>

\* Lines 109-129: the if / elif chain over the position argument
Anchor(position, width, height, text_width, text_height) ==
    IF position = "left-top"
    THEN <<padding, padding>>
    ELSE IF position = "center-top"
    THEN <<(width - text_width) \div 2, padding>>
    ELSE IF position = "right-top"
    THEN <<width - text_width - padding, padding>>
    ELSE IF position = "left-center"
    THEN <<padding, (height - text_height) \div 2>>
    ELSE IF position = "center"
    THEN <<(width - text_width) \div 2, (height - text_height) \div 2>>
    ELSE IF position = "right-center"
    THEN <<width - text_width - padding, (height - text_height) \div 2>>
    ELSE IF position = "left-bottom"
    THEN <<padding, height - text_height - padding>>
    ELSE IF position = "center-bottom"
    THEN <<(width - text_width) \div 2, height - text_height - padding>>
    ELSE IF position = "right-bottom"
    THEN <<width - text_width - padding, height - text_height - padding>>
    ELSE <<width - text_width - padding, height - text_height - padding>>

\* font_color[:3]
FirstThree(c) == SubSeq(c, 1, IF Len(c) < 3 THEN Len(c) ELSE 3)

\* Faulty variant of DrawText: a TypeError is not answered by a second call.
DrawTextNoRetry(font_color, env) ==
    [raised |-> env.draw4 # "ok", draws |-> <<font_color>>]

\* Lines 132-136: what the draw block did. draws lists the fill of every
\* draw.text call made; raised says an exception left the block.
DrawText(font_color, env) ==
    IF env.draw4 = "ok"
    THEN [raised |-> FALSE, draws |-> <<font_color>>]
    ELSE IF env.draw4 = "TypeError"
    THEN [raised |-> env.draw3 # "ok", draws |-> <<font_color, FirstThree(font_color)>>]
    ELSE [raised |-> TRUE, draws |-> <<font_color>>]

NoAnchor == <<>>

Outcome(raised, ret, font, text, anchor, draws, saved) ==
    [raised |-> raised, ret |-> ret, font |-> font, text |-> text,
     anchor |-> anchor, draws |-> draws, saved |-> saved]

\* Lines 43-140, the try body: raised says an exception left it.
WatermarkBody(args, env) ==
    IF ~env.open_ok
    THEN Outcome(TRUE, FALSE, "none", <<>>, NoAnchor, <<>>, FALSE)
    ELSE LET f == LoadFont(env) IN
    IF f.raised
    THEN Outcome(TRUE, FALSE, "none", <<>>, NoAnchor, <<>>, FALSE)
    ELSE IF args.metrics.iface # "none" /\ ~env.measure_ok
    THEN Outcome(TRUE, FALSE, f.font, <<>>, NoAnchor, <<>>, FALSE)
    ELSE LET text == TextSize(args.metrics, args.date_text, args.font_size)
             anchor == Anchor(args.position, args.size[1], args.size[2],
                              text[1], text[2])
             d == DrawText(args.font_color, env)
         IN
    IF d.raised
    THEN Outcome(TRUE, FALSE, f.font, text, anchor, d.draws, FALSE)
    ELSE IF ~env.save_ok
    THEN Outcome(TRUE, FALSE, f.font, text, anchor, d.draws, FALSE)
    ELSE Outcome(FALSE, TRUE, f.font, text, anchor, d.draws, TRUE)

\* Faulty variant of add_watermark: the except clause is missing.
add_watermarkUncaught(args, env) == WatermarkBody(args, env)

\* except Exception: print, return False
add_watermark(args, env) ==
    LET r == WatermarkBody(args, env) IN
    IF r.raised THEN [r EXCEPT !.raised = FALSE, !.ret = FALSE] ELSE r

(***************************************************************************)
(* os.path (posixpath) on character sequences                              *)
(***************************************************************************)

\* p.rfind(c) + 1: the 1-based index of the last c in p, 0 when there is none
LastIndex(p, c) ==
    IF \E i \in 1..Len(p) : p[i] = c
    THEN CHOOSE i \in 1..Len(p) : p[i] = c /\ \A j \in (i + 1)..Len(p) : p[j] # c
    ELSE 0

\* os.path.basename
basename(p) == SubSeq(p, LastIndex(p, "/") + 1, Len(p))

\* os.path.dirname: trailing slashes of the head go unless it is all slashes
dirname(p) ==
    LET head == SubSeq(p, 1, LastIndex(p, "/")) IN
    IF head # <<>> /\ \E i \in 1..Len(head) : head[i] # "/"
    THEN RStrip(head, {"/"})
    ELSE head

\* os.path.join(a, b)
join(a, b) ==
    IF StartsWith(b, <<"/">>) THEN b
    ELSE IF a = <<>> \/ EndsWith(a, <<"/">>) THEN a \o b
    ELSE a \o <<"/">> \o b

\* os.path.splitext(p)[1]: from the last dot of the last component, unless
\* only dots precede it there
splitext_ext(p) ==
    LET sepIndex == LastIndex(p, "/")
        dotIndex == LastIndex(p, ".")
    IN IF dotIndex > sepIndex
          /\ \E k \in (sepIndex + 1)..(dotIndex - 1) : p[k] # "."
       THEN SubSeq(p, dotIndex, Len(p))
       ELSE <<>>

(***************************************************************************)
(* process_images                                                          *)
(***************************************************************************)

image_extensions ==
    << <<".","j","p","g">>, <<".","j","p","e","g">>, <<".","p","n","g">>,
       <<".","g","i","f">>, <<".","b","m","p">>, <<".","t","i","f","f">> >>

InList(x, list) == \E i \in 1..Len(list) : list[i] = x

WatermarkSuffix == <<"_","w","a","t","e","r","m","a","r","k">>

\* [os.path.join(input_path, f) for f in os.listdir(input_path)
\*      if os.path.isfile(os.path.join(input_path, f))]
RECURSIVE ListFiles(_, _)
ListFiles(dir, listing) ==
    IF listing = <<>> THEN <<>>
    ELSE IF Head(listing).isfile
    THEN <<join(dir, Head(listing).name)>> \o ListFiles(dir, Tail(listing))
    ELSE ListFiles(dir, Tail(listing))

\* Faulty variant of IsDir: whatever is no file is taken for a directory.
IsDirByDefault(f) == f.kind # "file"

\* Faulty variant of OutputDir: the directory is put beside base_dir.
OutputDirBeside(bd) == join(dirname(bd), basename(bd) \o WatermarkSuffix)

\* Lines 147 and 151: os.path.isfile and os.path.isdir of the input path
IsFile(f) == f.kind = "file"
IsDir(f) == f.kind = "dir"

\* Line 161
OutputDir(bd) == join(bd, basename(bd) \o WatermarkSuffix)

\* Lines 147-163: resolve the input, compute and create the output directory.
\* makedirs_ok is whether os.makedirs succeeds when it is called.
Resolve(makedirs_ok) ==
    /\ batch_pc = "call"
    /\ IF ~IsFile(fs) /\ ~IsDir(fs)
       THEN /\ trace' = Append(trace, [op |-> "error", path |-> input_path])
            /\ batch_pc' = "done"
            /\ UNCHANGED <<files, base_dir, output_dir>>
       ELSE LET fl == IF IsFile(fs) THEN <<input_path>>
                      ELSE ListFiles(input_path, fs.listing)
                bd == IF IsFile(fs) THEN dirname(input_path) ELSE input_path
                od == OutputDir(bd)
            IN /\ files' = fl
               /\ base_dir' = bd
               /\ output_dir' = od
               /\ IF fs.out_exists
                  THEN /\ trace' = trace
                       /\ batch_pc' = "loop"
                  ELSE /\ trace' = Append(trace, [op |-> "makedirs", path |-> od])
                       /\ batch_pc' = IF makedirs_ok THEN "loop" ELSE "raised"
    /\ UNCHANGED <<input_path, fs, next_file, processed_count>>

\* Faulty variant of IsImage: any extension passes.
IsImageByDot(file_path) == splitext_ext(file_path) # <<>>

\* Line 172: the extension test of the loop
IsImage(file_path) == InList(Lower(splitext_ext(file_path)), image_extensions)

\* Lines 169, 173, 179: continue and the end of the body both move the for
\* loop to the next element
Advance(i) == i + 1

\* Faulty variant of CountAfter: the count ignores the renderer's answer.
CountAfterAlways(count, ok) == count + 1

\* Lines 186-187
CountAfter(count, ok) == IF ok THEN count + 1 ELSE count

\* Lines 169-188: one pass of the for loop over the file next_file points at.
\* meta and render are how the collaborators behave for this file; picture
\* is the image's size and the font's metrics; args are the function's own
\* position, font_size and font_color.
ProcessFile(content, args) ==
    /\ batch_pc = "loop"
    /\ next_file <= Len(files)
    /\ LET file_path == files[next_file] IN
       IF ~IsImage(file_path)
       THEN /\ trace' = trace
            /\ batch_pc' = "loop"
            /\ processed_count' = processed_count
       ELSE LET date == get_exif_date(content.tags, content.meta)
                called == Append(trace, [op |-> "exif", path |-> file_path,
                                         raised |-> date.raised, ret |-> date.val])
            IN
            IF date.raised
            THEN /\ trace' = called
                 /\ batch_pc' = "raised"
                 /\ processed_count' = processed_count
            ELSE IF date.val = None
            THEN /\ trace' = Append(called, [op |-> "warning", path |-> file_path])
                 /\ batch_pc' = "loop"
                 /\ processed_count' = processed_count
            ELSE LET filename == basename(file_path)
                     output_path == join(output_dir, filename)
                     r == add_watermark(
                              [position |-> args.position,
                               font_size |-> args.font_size,
                               font_color |-> args.font_color,
                               date_text |-> date.val,
                               size |-> content.size,
                               metrics |-> content.metrics],
                              content.render)
                 IN /\ trace' = Append(called,
                                  [op |-> "render", path |-> file_path,
                                   out |-> output_path, date |-> date.val,
                                   raised |-> r.raised, ret |-> r.ret,
                                   saved |-> r.saved])
                    /\ batch_pc' = IF r.raised THEN "raised" ELSE "loop"
                    /\ processed_count' =
                           IF r.raised THEN processed_count
                           ELSE CountAfter(processed_count, r.ret)
    /\ next_file' = Advance(next_file)
    /\ UNCHANGED <<input_path, fs, files, base_dir, output_dir>>

\* Line 190: the summary after the loop
Summary ==
    /\ batch_pc = "loop"
    /\ next_file > Len(files)
    /\ trace' = Append(trace, [op |-> "summary", count |-> processed_count,
                               dir |-> output_dir])
    /\ batch_pc' = "done"
    /\ UNCHANGED <<input_path, fs, files, base_dir, output_dir, next_file,
                   processed_count>>

(***************************************************************************)
(* What the collaborators may do                                           *)
(***************************************************************************)

\* open() and exifread.process_file(): the second is reached only after the first
MetaBehaviours ==
    { [open_ok |-> TRUE, process_ok |-> TRUE],
      [open_ok |-> FALSE, process_ok |-> TRUE],
      [open_ok |-> TRUE, process_ok |-> FALSE] }

DrawResults == {"ok", "TypeError", "Error"}

\* Image.open / ImageDraw.Draw, the font search and loaders, the measurement,
\* the two draw.text calls and img.save. A step that is never reached is
\* listed as succeeding, so each behaviour appears once.
RenderBehaviours ==
    { e \in [open_ok : BOOLEAN, font_found : BOOLEAN, truetype_ok : BOOLEAN,
             default_ok : BOOLEAN, measure_ok : BOOLEAN,
             draw4 : DrawResults, draw3 : DrawResults, save_ok : BOOLEAN] :
        LET font_ok == (e.font_found /\ e.truetype_ok) \/ e.default_ok
            drawn == e.draw4 = "ok" \/ (e.draw4 = "TypeError" /\ e.draw3 = "ok")
        IN /\ ~e.font_found => e.truetype_ok
           /\ (e.font_found /\ e.truetype_ok) => e.default_ok
           /\ ~e.open_ok =>
                 e.font_found /\ e.truetype_ok /\ e.measure_ok /\ e.draw4 = "ok" /\ e.save_ok
           /\ ~font_ok => e.measure_ok /\ e.draw4 = "ok" /\ e.save_ok
           /\ ~e.measure_ok => e.draw4 = "ok" /\ e.save_ok
           /\ e.draw4 # "TypeError" => e.draw3 = "ok"
           /\ ~drawn => e.save_ok }

(***************************************************************************)
(* The inputs of get_exif_date and add_watermark                           *)
(***************************************************************************)

MaxImg == 2         \* image extents 0, 7, .. 7 * MaxImg, and the spec's 200 x 100
MaxText == 2        \* text extents 0, 15, .. 15 * MaxText, and the spec's 50 x 20

ImgWidths == { 7 * k : k \in 0..MaxImg } \cup {200}
ImgHeights == { 7 * k : k \in 0..MaxImg } \cup {100}
TextWidths == { 15 * k : k \in 0..MaxText } \cup {50}
TextHeights == { 15 * k : k \in 0..MaxText } \cup {20}

Metrics(iface, w, h) ==
    [iface |-> iface,
     size |-> <<w, h>>,
     bbox |-> <<1, 3, w + 1, h + 3>>,
     length |-> w]

SampleDate == <<"2","0","2","1","-","0","3","-","0","4">>

AllMetrics ==
    { Metrics(i, tw, th) :
        i \in {"textsize", "getbbox"}, tw \in TextWidths, th \in TextHeights }
    \cup { Metrics("getlength", tw, 0) : tw \in TextWidths }
    \cup { Metrics("none", 0, 0) }

\* font_size is read only where the library cannot measure the height
FontSizes(m) == IF m.iface \in {"textsize", "getbbox"} THEN {36} ELSE {36, 13}

WatermarkArgs ==
    UNION { { [position |-> p, font_size |-> sz, font_color |-> DefaultColor,
               date_text |-> SampleDate, size |-> <<w, h>>, metrics |-> m] :
                p \in PositionTokens \cup {"middle"},
                sz \in FontSizes(m),
                w \in ImgWidths, h \in ImgHeights } : m \in AllMetrics }

\* the arguments of the calls that follow get_exif_date on one file
FileArgs ==
    { [position |-> p, font_size |-> 36, font_color |-> DefaultColor,
       date_text |-> SampleDate, size |-> <<200, 100>>, metrics |-> m] :
        p \in {"center", "right-bottom"},
        m \in { Metrics("getbbox", 50, 20), Metrics("none", 0, 0) } }

TagSamples ==
    { Absent,
      Garbage,
      Stamp(2021, 3, 4, 10, 20, 30),
      Stamp(1999, 12, 31, 23, 59, 59),
      Stamp(2020, 2, 30, 0, 0, 0),
      Stamp(0, 0, 0, 0, 0, 0) }

TagNames == { date_tags[k] : k \in 1..Len(date_tags) }

(***************************************************************************)
(* get_exif_date and add_watermark as steps                                *)
(***************************************************************************)

ColorIdle == color_str = <<>> /\ color_pc = "idle" /\ color_ret = <<>>

ExifIdle ==
    /\ exif_tags = <<>>
    /\ exif_env = <<>>
    /\ exif_pc = "idle"
    /\ exif_ret = <<>>

ExifInit ==
    /\ exif_tags \in [TagNames -> TagSamples]
    /\ exif_env = <<>>
    /\ exif_pc = "call"
    /\ exif_ret = <<>>

WmIdle ==
    /\ wm_args = <<>>
    /\ wm_env = <<>>
    /\ wm_pc = "idle"
    /\ wm_out = <<>>

WmInit(argset) ==
    /\ wm_args \in argset
    /\ wm_env = <<>>
    /\ wm_pc = "call"
    /\ wm_out = <<>>

BatchIdle ==
    /\ input_path = <<>>
    /\ fs = <<>>
    /\ batch_pc = "idle"
    /\ files = <<>>
    /\ base_dir = <<>>
    /\ output_dir = <<>>
    /\ next_file = 1
    /\ processed_count = 0
    /\ trace = <<>>

GetExifDate ==
    /\ exif_pc = "call"
    /\ \E env \in MetaBehaviours :
          /\ exif_env' = env
          /\ exif_ret' = get_exif_date(exif_tags, env)
    /\ exif_pc' = "done"
    /\ UNCHANGED exif_tags

AddWatermark ==
    /\ wm_pc = "call"
    /\ exif_pc # "call"
    /\ \E env \in RenderBehaviours :
          /\ wm_env' = env
          /\ wm_out' = add_watermark(wm_args, env)
    /\ wm_pc' = "done"
    /\ UNCHANGED wm_args

(***************************************************************************)
(* The inputs of process_images                                            *)
(***************************************************************************)

MaxFiles == 3       \* most entries of the input directory

\* what a directory may hold: four files and a subdirectory
DirEntries ==
    { [name |-> <<"a",".","j","p","g">>, isfile |-> TRUE],
      [name |-> <<"B",".","J","P","G">>, isfile |-> TRUE],
      [name |-> <<"c",".","t","x","t">>, isfile |-> TRUE],
      [name |-> <<"d",".","t","i","f","f">>, isfile |-> TRUE],
      [name |-> <<"s","u","b",".","p","n","g">>, isfile |-> FALSE] }

\* os.listdir: distinct names, in any order
Listings ==
    { l \in SeqsUpTo(DirEntries, MaxFiles) :
        \A i, j \in 1..Len(l) : i # j => l[i] # l[j] }

DirPaths == { <<"/","a","/","p">>, <<"p","/">>, <<"p">> }
FilePaths == { <<"/","a","/","p","/","a",".","j","p","g">>, <<"a",".","j","p","g">>, <<"p","/","B",".","J","P","G">>, <<"p","/","c",".","t","x","t">>, <<"/",".","p","n","g">> }
MissingPaths == { <<"/","a","/","g","o","n","e">>, <<>> }

InputCases ==
    { [path |-> d, kind |-> "dir", listing |-> l, out_exists |-> x] :
        d \in DirPaths, l \in Listings, x \in BOOLEAN }
    \cup { [path |-> f, kind |-> "file", listing |-> <<>>, out_exists |-> x] :
             f \in FilePaths, x \in BOOLEAN }
    \cup { [path |-> m, kind |-> "none", listing |-> <<>>, out_exists |-> FALSE] :
             m \in MissingPaths }

AllOk ==
    [open_ok |-> TRUE, font_found |-> TRUE, truetype_ok |-> TRUE,
     default_ok |-> TRUE, measure_ok |-> TRUE, draw4 |-> "ok", draw3 |-> "ok",
     save_ok |-> TRUE]

NoTags == [t \in TagNames |-> Absent]

Readable == [open_ok |-> TRUE, process_ok |-> TRUE]

FileContent(tags, meta, render) ==
    [tags |-> tags, meta |-> meta, render |-> render,
     size |-> <<200, 100>>, metrics |-> Metrics("getbbox", 50, 20)]

\* what a file may hold and how the collaborators may treat it
FileContents ==
    { FileContent(NoTags, Readable, AllOk),
      FileContent([NoTags EXCEPT !["Image DateTime"] = Garbage], Readable, AllOk),
      FileContent([NoTags EXCEPT !["EXIF DateTimeOriginal"] = Stamp(2021, 3, 4, 10, 20, 30)],
                  [Readable EXCEPT !.open_ok = FALSE], AllOk),
      FileContent([NoTags EXCEPT !["EXIF DateTimeOriginal"] = Stamp(2021, 3, 4, 10, 20, 30)],
                  Readable, AllOk),
      FileContent([NoTags EXCEPT !["EXIF DateTimeOriginal"] = Stamp(2020, 2, 30, 0, 0, 0),
                                 !["Image DateTime"] = Stamp(1999, 12, 31, 23, 59, 59)],
                  Readable, [AllOk EXCEPT !.draw4 = "TypeError"]),
      FileContent([NoTags EXCEPT !["EXIF DateTimeDigitized"] = Stamp(2021, 3, 4, 10, 20, 30)],
                  Readable, [AllOk EXCEPT !.open_ok = FALSE]),
      FileContent([NoTags EXCEPT !["EXIF DateTimeDigitized"] = Stamp(2021, 3, 4, 10, 20, 30)],
                  Readable, [AllOk EXCEPT !.draw4 = "Error"]),
      FileContent([NoTags EXCEPT !["EXIF DateTimeDigitized"] = Stamp(2021, 3, 4, 10, 20, 30)],
                  Readable, [AllOk EXCEPT !.save_ok = FALSE]) }

\* the position, font_size and font_color main() passes by default
BatchArgs ==
    [position |-> "right-bottom", font_size |-> 36, font_color |-> DefaultColor]

BatchInit ==
    /\ \E c \in InputCases :
          /\ input_path = c.path
          /\ fs = [kind |-> c.kind, listing |-> c.listing, out_exists |-> c.out_exists]
    /\ batch_pc = "call"
    /\ files = <<>>
    /\ base_dir = <<>>
    /\ output_dir = <<>>
    /\ next_file = 1
    /\ processed_count = 0
    /\ trace = <<>>

(***************************************************************************)
(* Specifications                                                          *)
(***************************************************************************)

\* parse_color on every string of ColorTexts
InitColor == ColorInit /\ ExifIdle /\ WmIdle /\ BatchIdle
NextColor == ParseColor /\ UNCHANGED <<exifVars, wmVars, batchVars>>
SpecColor == InitColor /\ [][NextColor]_vars

\* add_watermark on every image extent, text measurement and position
InitRender == ColorIdle /\ ExifIdle /\ WmInit(WatermarkArgs) /\ BatchIdle
NextRender == AddWatermark /\ UNCHANGED <<colorVars, exifVars, batchVars>>
SpecRender == InitRender /\ [][NextRender]_vars

\* get_exif_date, then add_watermark, on one file
InitFile == ColorIdle /\ ExifInit /\ WmInit(FileArgs) /\ BatchIdle
NextFile ==
    \/ GetExifDate /\ UNCHANGED <<colorVars, wmVars, batchVars>>
    \/ AddWatermark /\ UNCHANGED <<colorVars, exifVars, batchVars>>
SpecFile == InitFile /\ [][NextFile]_vars

\* process_images on a file, a directory and a path that is neither
InitBatch == ColorIdle /\ ExifIdle /\ WmIdle /\ BatchInit
NextBatch ==
    \/ (\E ok \in BOOLEAN : Resolve(ok)) /\ UNCHANGED <<colorVars, exifVars, wmVars>>
    \/ (\E c \in FileContents : ProcessFile(c, BatchArgs))
           /\ UNCHANGED <<colorVars, exifVars, wmVars>>
    \/ Summary /\ UNCHANGED <<colorVars, exifVars, wmVars>>
SpecBatch == InitBatch /\ [][NextBatch]_vars

(***************************************************************************)
(* Properties of parse_color (under SpecColor)                             *)
(***************************************************************************)

IsHexDigit(c) == \E i \in 1..16 : HexUpper[i] = c \/ HexLower[i] = c

HexDigitOf(c) == (CHOOSE i \in 1..16 : HexUpper[i] = c \/ HexLower[i] = c) - 1

\* the byte the two hex digits at positions k, k + 1 of s write
HexPair(s, k) == 16 * HexDigitOf(s[k]) + HexDigitOf(s[k + 1])

\* '#' followed by exactly n hex digits
IsHexText(s, n) ==
    /\ Len(s) = n + 1
    /\ s[1] = "#"
    /\ \A i \in 2..(n + 1) : IsHexDigit(s[i])

\* decimal integer texts and the integers they write
IntegerTexts ==
    { [text |-> <<"2","5","5">>, val |-> 255],
      [text |-> <<"3","0","0">>, val |-> 300],
      [text |-> <<"-","1">>, val |-> 0 - 1],
      [text |-> <<" ","7"," ">>, val |-> 7],
      [text |-> <<"1","0">>, val |-> 10],
      [text |-> <<"2","0">>, val |-> 20],
      [text |-> <<"3","0">>, val |-> 30],
      [text |-> <<"1">>, val |-> 1],
      [text |-> <<"2">>, val |-> 2],
      [text |-> <<"3">>, val |-> 3],
      [text |-> <<"4">>, val |-> 4] }

IsIntegerText(f) == \E e \in IntegerTexts : e.text = f

IntegerOf(f) == (CHOOSE e \in IntegerTexts : e.text = f).val

FunctionalPrefixes == { <<"r","g","b","(">>, <<"r","g","b","a","(">> }

Commas(t) == { i \in 1..Len(t) : t[i] = "," }

\* the position of the k-th comma of t; 0 and Len(t) + 1 stand at the ends
CommaAt(t, k) ==
    IF k = 0 THEN 0
    ELSE IF k > Cardinality(Commas(t)) THEN Len(t) + 1
    ELSE CHOOSE i \in Commas(t) : Cardinality({ j \in Commas(t) : j < i }) = k - 1

\* the k-th comma-separated field of t
Field(t, k) == SubSeq(t, CommaAt(t, k - 1) + 1, CommaAt(t, k) - 1)

\* what stands between the prefix p and the closing parenthesis of s
Inside(s, p) == SubSeq(s, Len(p) + 1, Len(s) - 1)

\* p, then exactly n integer components separated by commas, then ')'
IsFunctionalText(s, p, n) ==
    /\ StartsWith(s, p)
    /\ Len(s) > Len(p)
    /\ s[Len(s)] = ")"
    /\ Cardinality(Commas(Inside(s, p))) = n - 1
    /\ \A k \in 1..n : IsIntegerText(Field(Inside(s, p), k))

Transparent == <<"t","r","a","n","s","p","a","r","e","n","t">>

\* C2: parse_color maps each well-formed input to the stated Color: '#' and
\* exactly 6 hex digits give (RR,GG,BB,255); '#' and exactly 8 hex digits give
\* (RR,GG,BB,AA); 'rgb(' or 'rgba(' with exactly 3 integer components gives
\* them and alpha 255, with exactly 4 gives them unchanged, out-of-range
\* integers included; a name of the table in any letter case gives its entry,
\* fully opaque except transparent, which is (255,255,255,128).
C2_WellFormedInputsParse ==
    color_pc = "done" =>
        /\ IsHexText(color_str, 6) =>
               color_ret = <<HexPair(color_str, 2), HexPair(color_str, 4),
                             HexPair(color_str, 6), 255>>
        /\ IsHexText(color_str, 8) =>
               color_ret = <<HexPair(color_str, 2), HexPair(color_str, 4),
                             HexPair(color_str, 6), HexPair(color_str, 8)>>
        /\ \A p \in FunctionalPrefixes :
               /\ IsFunctionalText(color_str, p, 3) =>
                      color_ret = <<IntegerOf(Field(Inside(color_str, p), 1)),
                                    IntegerOf(Field(Inside(color_str, p), 2)),
                                    IntegerOf(Field(Inside(color_str, p), 3)), 255>>
               /\ IsFunctionalText(color_str, p, 4) =>
                      color_ret = <<IntegerOf(Field(Inside(color_str, p), 1)),
                                    IntegerOf(Field(Inside(color_str, p), 2)),
                                    IntegerOf(Field(Inside(color_str, p), 3)),
                                    IntegerOf(Field(Inside(color_str, p), 4))>>
        /\ \A n \in ColorNames :
               color_str \in {n, Upper(n), Capitalize(n)} =>
                   /\ color_ret = color_map(n)
                   /\ n # Transparent => color_ret[4] = 255
                   /\ n = Transparent => color_ret = <<255, 255, 255, 128>>

\* the spec's '#00FF0080' has been parsed to (0,255,0,128)
C2_Witness ==
    /\ color_pc = "done"
    /\ color_str = <<"#","0","0","F","F","0","0","8","0">>
    /\ color_ret = <<0, 255, 0, 128>>

\* the input has one of the three forms: hex with 6 or 8 digits, functional
\* with 3 or 4 components that int() takes (with or without the closing
\* parenthesis), or a known name in any letter case
FunctionalBody(s, p) ==
    IF s[Len(s)] = ")" THEN Inside(s, p) ELSE SubSeq(s, Len(p) + 1, Len(s))

MatchesSomeForm(s) ==
    \/ IsHexText(s, 6)
    \/ IsHexText(s, 8)
    \/ \E p \in FunctionalPrefixes :
          /\ StartsWith(s, p)
          /\ Len(s) > Len(p)
          /\ Cardinality(Commas(FunctionalBody(s, p))) \in {2, 3}
          /\ \A k \in 1..(Cardinality(Commas(FunctionalBody(s, p))) + 1) :
                 PyInt(Strip(Field(FunctionalBody(s, p), k)), 10).ok
    \/ Lower(s) \in ColorNames

\* C3: parse_color never fails outward: it returns a 4-channel Color for every
\* input, and whenever the input matches none of the three forms (or a numeric
\* component fails to parse) the result is exactly the default (255,255,255,128).
C3_UnmatchedInputGivesDefault ==
    color_pc = "done" =>
        /\ Len(color_ret) = 4
        /\ ~MatchesSomeForm(color_str) => color_ret = DefaultColor

OpaqueNames == ColorNames \ {Transparent}

\* C6: a hex-prefixed string that fails hex parsing does not succeed as a named
\* color: for each opaque name n of the table, parse_color('#' + n) is the
\* default (255,255,255,128) and not the color of n.
C6_HexPrefixedNameGivesDefault ==
    (/\ color_pc = "done"
     /\ StartsWith(color_str, <<"#">>)
     /\ ~IsHexText(color_str, 6)
     /\ ~IsHexText(color_str, 8)
     /\ Lower(Tail(color_str)) \in OpaqueNames)
        => color_ret = DefaultColor

(***************************************************************************)
(* Properties of add_watermark and get_exif_date                           *)
(***************************************************************************)

Horizontal(token) ==
    IF token \in {"left-top", "left-center", "left-bottom"} THEN "left"
    ELSE IF token \in {"center-top", "center", "center-bottom"} THEN "center"
    ELSE "right"

Vertical(token) ==
    IF token \in {"left-top", "center-top", "right-top"} THEN "top"
    ELSE IF token \in {"left-center", "center", "right-center"} THEN "center"
    ELSE "bottom"

\* v is the coordinate the rule of one axis gives; the centre is the floor
\* of half the slack, as Python's // computes it
AxisRule(rule, extent, text, v) ==
    IF rule \in {"left", "top"} THEN v = 10
    ELSE IF rule = "center" THEN 2 * v <= extent - text /\ extent - text < 2 * v + 2
    ELSE v = extent - text - 10

Anchored == wm_pc = "done" /\ wm_out.anchor # NoAnchor

\* C1: the anchor add_watermark computes follows the per-axis rule of the
\* token (left/top 10, center the floor of half the slack, right/bottom
\* extent - text - 10) for all nine tokens; an unrecognised token gives the
\* right-bottom result; nothing is clamped, so a text larger than the image
\* less the padding gives a negative right/bottom coordinate; 200x100 with
\* 50x20 gives center (75,40), right-bottom (140,70), left-top (10,10).
C1_AnchorFollowsAxisRules ==
    Anchored =>
        LET W == wm_args.size[1]
            H == wm_args.size[2]
            tw == wm_out.text[1]
            th == wm_out.text[2]
            x == wm_out.anchor[1]
            y == wm_out.anchor[2]
            token == wm_args.position
        IN /\ AxisRule(Horizontal(token), W, tw, x)
           /\ AxisRule(Vertical(token), H, th, y)
           /\ token \notin PositionTokens => x = W - tw - 10 /\ y = H - th - 10
           /\ (Horizontal(token) = "right" /\ tw > W - 10) => x < 0
           /\ (Vertical(token) = "bottom" /\ th > H - 10) => y < 0
           /\ (W = 200 /\ H = 100 /\ tw = 50 /\ th = 20) =>
                  /\ token = "center" => <<x, y>> = <<75, 40>>
                  /\ token = "right-bottom" => <<x, y>> = <<140, 70>>
                  /\ token = "left-top" => <<x, y>> = <<10, 10>>

\* a 50x20 text centred on a 7x7 image: both coordinates negative, floored
C1_Witness ==
    /\ Anchored
    /\ wm_args.position = "center"
    /\ wm_args.size = <<7, 7>>
    /\ wm_out.text = <<50, 20>>
    /\ wm_out.anchor = <<0 - 22, 0 - 7>>

IsDecimalDigit(c) == \E i \in 1..10 : DecimalDigits[i] = c

\* YYYY-MM-DD
IsDateText(v) ==
    /\ Len(v) = 10
    /\ v[5] = "-"
    /\ v[8] = "-"
    /\ \A i \in {1, 2, 3, 4, 6, 7, 9, 10} : IsDecimalDigit(v[i])

\* the draw.text call made last succeeded
DrawSucceeded(env) ==
    \/ env.draw4 = "ok"
    \/ env.draw4 = "TypeError" /\ env.draw3 = "ok"

\* C5: no error of a per-file operation propagates: whatever the delegated
\* steps do, get_exif_date returns a date string or None and add_watermark
\* returns True or False, never raising; add_watermark returns True only when
\* the draw and the save both succeeded.
C5_PerFileOperationsNeverRaise ==
    /\ exif_pc = "done" =>
           /\ ~exif_ret.raised
           /\ exif_ret.val = None \/ IsDateText(exif_ret.val)
    /\ wm_pc = "done" =>
           /\ ~wm_out.raised
           /\ wm_out.ret \in BOOLEAN
           /\ wm_out.ret =>
                  /\ wm_out.draws # <<>>
                  /\ DrawSucceeded(wm_env)
                  /\ wm_env.save_ok
                  /\ wm_out.saved

\* the metadata read failed at open and the draw raised: None and False
C5_Witness ==
    /\ exif_pc = "done"
    /\ ~exif_env.open_ok
    /\ exif_ret.val = None
    /\ wm_pc = "done"
    /\ wm_env.draw4 = "Error"
    /\ wm_out.ret = FALSE

\* C7: whenever the draw primitive rejects the 4-channel color (TypeError),
\* add_watermark draws exactly once more, with the first three channels; it
\* returns False only if that second draw or the save failed, and True when
\* both succeeded.
C7_RejectedColorIsRetriedOnce ==
    (wm_pc = "done" /\ wm_env.draw4 = "TypeError") =>
        /\ wm_out.draws = << wm_args.font_color,
                             << wm_args.font_color[1], wm_args.font_color[2],
                                wm_args.font_color[3] >> >>
        /\ wm_out.ret = (wm_env.draw3 = "ok" /\ wm_env.save_ok)

\* the color was rejected, the three-channel draw and the save succeeded
C7_Witness ==
    /\ wm_pc = "done"
    /\ wm_env.draw4 = "TypeError"
    /\ wm_env.draw3 = "ok"
    /\ wm_env.save_ok
    /\ Len(wm_out.draws) = 2
    /\ wm_out.ret = TRUE

(***************************************************************************)
(* Properties of process_images (under SpecBatch)                          *)
(***************************************************************************)

SupportedExtensions == { <<".","J","P","G">>, <<".","J","P","E","G">>, <<".","P","N","G">>, <<".","G","I","F">>, <<".","B","M","P">>, <<".","T","I","F","F">> }

\* the file's name ends, in any letter case, with a supported extension that
\* something other than dots precedes
Supported(path) ==
    LET name == basename(path) IN
    \E e \in SupportedExtensions :
        /\ EndsWith(Upper(name), e)
        /\ \E k \in 1..(Len(name) - Len(e)) : name[k] # "."

Calls(op) == SelectSeq(trace, LAMBDA r : r.op = op)

PathsOf(calls) == [k \in 1..Len(calls) |-> calls[k].path]

\* the metadata collaborator returned a capture date for f
DateReturned(f) ==
    \E k \in 1..Len(trace) :
        trace[k].op = "exif" /\ trace[k].path = f /\ trace[k].ret # None

\* the renderer returned success for f
RenderSucceeded(f) ==
    \E k \in 1..Len(trace) :
        trace[k].op = "render" /\ trace[k].path = f /\ trace[k].ret

WantsDate(f) == Supported(f)
WantsRender(f) == Supported(f) /\ DateReturned(f)

Finished == batch_pc = "done" /\ fs.kind \in {"file", "dir"}

\* C4: after process_images has run on a file or a directory, the count of the
\* summary is the number of candidate files with a supported extension, a
\* capture date and a successful render; each candidate is attempted at most
\* once, in list order, and neither a skipped file nor a failed render keeps
\* the later files from being attempted.
C4_CountIsSuccessfulRenders ==
    Finished =>
        /\ trace[Len(trace)].op = "summary"
        /\ trace[Len(trace)].count =
               Cardinality({ i \in 1..Len(files) :
                               /\ Supported(files[i])
                               /\ DateReturned(files[i])
                               /\ RenderSucceeded(files[i]) })
        /\ PathsOf(Calls("exif")) = SelectSeq(files, WantsDate)
        /\ PathsOf(Calls("render")) = SelectSeq(files, WantsRender)

\* three candidates: the first render failed, the second file had no date,
\* the third was processed
C4_Witness ==
    /\ Finished
    /\ Len(files) = 3
    /\ \E k \in 1..Len(trace) :
          trace[k].op = "render" /\ trace[k].path = files[1] /\ ~trace[k].ret
    /\ \E k \in 1..Len(trace) :
          trace[k].op = "exif" /\ trace[k].path = files[2] /\ trace[k].ret = None
    /\ RenderSucceeded(files[3])
    /\ processed_count = 1

\* C8: when input_path is neither a file nor a directory, process_images
\* reports the error and halts with zero files processed: no output directory
\* is created, neither the metadata collaborator nor the renderer is invoked,
\* and the call ends without raising.
C8_InvalidPathDoesNothing ==
    (batch_pc # "idle" /\ fs.kind = "none") =>
        /\ batch_pc \in {"call", "done"}
        /\ processed_count = 0
        /\ files = <<>>
        /\ \A k \in 1..Len(trace) : trace[k].op = "error"
        /\ batch_pc = "done" => trace = << [op |-> "error", path |-> input_path] >>

\* the call on a missing path has returned after its one error line
C8_Witness ==
    /\ batch_pc = "done"
    /\ fs.kind = "none"
    /\ input_path = <<"/","a","/","g","o","n","e">>
    /\ Len(trace) = 1

\* C9: the metadata collaborator is invoked only for files with a supported
\* extension; the renderer is invoked, and an output written, only for such a
\* file for which a capture date was returned (the date it is given); a file
\* with no capture date gets no render; no output path is the path of a
\* candidate input file.
C9_OnlyDatedImagesAreRendered ==
    \A k \in 1..Len(trace) :
        /\ trace[k].op = "exif" =>
               /\ Supported(trace[k].path)
               /\ trace[k].ret = None =>
                      \A j \in 1..Len(trace) :
                          trace[j].op = "render" => trace[j].path # trace[k].path
        /\ trace[k].op = "render" =>
               /\ Supported(trace[k].path)
               /\ \E j \in 1..(k - 1) :
                      /\ trace[j].op = "exif"
                      /\ trace[j].path = trace[k].path
                      /\ trace[j].ret # None
                      /\ trace[j].ret = trace[k].date
               /\ trace[k].out # trace[k].path
               /\ \A i \in 1..Len(files) : files[i] # trace[k].out

\* a directory run that skipped an unsupported file and an undated image and
\* wrote one output
C9_Witness ==
    /\ Finished
    /\ \E i \in 1..Len(files) : ~Supported(files[i])
    /\ \E k \in 1..Len(trace) : trace[k].op = "exif" /\ trace[k].ret = None
    /\ \E k \in 1..Len(trace) : trace[k].op = "render" /\ trace[k].saved

\* a path without its trailing slashes (the root stays)
Normalized(path) ==
    IF \E i \in 1..Len(path) : path[i] # "/" THEN RStrip(path, {"/"}) ELSE path

\* the directory that holds path
Parent(path) == dirname(Normalized(path))

Resolved == batch_pc \in {"loop", "done", "raised"} /\ fs.kind \in {"file", "dir"}

\* the directory is created exactly when absent, and every output keeps its
\* input's name inside the output directory
CreatedIfAbsentAndNamesKept ==
    /\ Calls("makedirs") =
           IF fs.out_exists THEN <<>>
           ELSE << [op |-> "makedirs", path |-> output_dir] >>
    /\ \A k \in 1..Len(trace) :
           trace[k].op = "render" =>
               /\ basename(trace[k].out) = basename(trace[k].path)
               /\ dirname(trace[k].out) = output_dir

====
